---- MODULE Spec2Model ----
(***************************************************************************)
(* The Crud data-access class of tools/templates/module/client-react/      *)
(* index.tsx, run against a small relational store: one parent table, one  *)
(* child table reached through ctx, and the child writes that create and   *)
(* update put in flight without waiting for them.                          *)
(***************************************************************************)
EXTENDS Integers, Sequences, FiniteSets, Bags, TLC

VARIABLES parentT, childT, nextId, pending, call, ev

vars == <<parentT, childT, nextId, pending, call, ev>>

\* ------------------------------------------------------------------ bounds
MaxId == 2
MaxRank == 2
MaxNested == 2

Ids == 1..MaxId
Ranks == 1..MaxRank

\* ----------------------------------------------------------------- strings
\* Names are sequences of one-character strings, so that the casing
\* conversions of humps are computed rather than assumed.
Lower == <<"a","b","c","d","e","f","g","h","i","j","k","l","m",
           "n","o","p","q","r","s","t","u","v","w","x","y","z">>
Upper == <<"A","B","C","D","E","F","G","H","I","J","K","L","M",
           "N","O","P","Q","R","S","T","U","V","W","X","Y","Z">>
Separators == {"-", "_", " "}

IsUpper(c) == \E i \in 1..Len(Upper) : Upper[i] = c
IsLower(c) == \E i \in 1..Len(Lower) : Lower[i] = c
ToLower(c) == IF IsUpper(c) THEN Lower[CHOOSE i \in 1..Len(Upper) : Upper[i] = c] ELSE c
ToUpper(c) == IF IsLower(c) THEN Upper[CHOOSE i \in 1..Len(Lower) : Lower[i] = c] ELSE c

LowerFirst(s) == IF s = <<>> THEN s ELSE <<ToLower(Head(s))>> \o Tail(s)
UpperFirst(s) == IF s = <<>> THEN s ELSE <<ToUpper(Head(s))>> \o Tail(s)

\* string.replace(/[\-_\s]+(.)?/g, (m, chr) => chr ? chr.toUpperCase() : '')
RECURSIVE JoinWords(_, _)
JoinWords(s, up) ==
    IF s = <<>> THEN <<>>
    ELSE IF Head(s) \in Separators THEN JoinWords(Tail(s), TRUE)
    ELSE <<IF up THEN ToUpper(Head(s)) ELSE Head(s)>> \o JoinWords(Tail(s), FALSE)

Camelize(s) == LowerFirst(JoinWords(s, FALSE))
Pascalize(s) == UpperFirst(Camelize(s))

\* string.split(/(?=[A-Z])/).join('_').toLowerCase()
RECURSIVE SeparateWords(_, _)
SeparateWords(s, first) ==
    IF s = <<>> THEN <<>>
    ELSE (IF IsUpper(Head(s)) /\ ~first THEN <<"_", ToLower(Head(s))>> ELSE <<ToLower(Head(s))>>)
         \o SeparateWords(Tail(s), FALSE)

Decamelize(s) == SeparateWords(s, TRUE)

Digits == <<"0","1","2","3","4","5","6","7","8","9">>

RECURSIVE DecimalOf(_)
DecimalOf(n) ==
    IF n < Len(Digits) THEN <<Digits[n + 1]>>
    ELSE DecimalOf(n \div Len(Digits)) \o <<Digits[(n % Len(Digits)) + 1]>>

\* column LIKE '%text%'
Like(s, text) == \E i \in 0..(Len(s) - Len(text)) : SubSeq(s, i + 1, i + Len(text)) = text

\* ------------------------------------------------------------------ schema
\* The instance under study: this.prefix, this.tableName, this.schema of the
\* parent Crud object, and the sibling instance the context holds.
K_id == <<"i","d">>
K_rank == <<"r","a","n","k">>
K_owner == <<"o","w","n","e","r">>
K_myKids == <<"m","y","K","i","d","s">>
K_myBoxId == <<"m","y","B","o","x","I","d">>
K_nick == <<"n","i","c","k">>
N_MyBox == <<"M","y","B","o","x">>
N_Usr == <<"U","s","r">>
N_MyKids == <<"M","y","K","i","d","s">>

Prefix == <<>>
TableName == Decamelize(N_MyBox)
ChildTableName == Decamelize(N_MyKids)

UsrSchema == [name |-> N_Usr,
              keys |-> <<[key |-> K_id, sortBy |-> FALSE], [key |-> K_nick, sortBy |-> TRUE]>>]

Schema == [name |-> N_MyBox,
           keys |-> << [key |-> K_id,     kind |-> "scalar", searchText |-> FALSE],
                       [key |-> K_rank,   kind |-> "scalar", searchText |-> TRUE],
                       [key |-> K_owner,  kind |-> "schema", searchText |-> FALSE],
                       [key |-> K_myKids, kind |-> "array",  searchText |-> FALSE] >>]

\* ctx: the sibling Crud instances, keyed by type name
CtxKeys == {N_MyKids}

Dot(t, c) == t \o <<".">> \o c

ParentColumns == {K_id, K_rank}
ChildFkColumn == <<"m","y","_","b","o","x","_","i","d">>
ChildColumns == {K_id, ChildFkColumn}

\* --------------------------------------------------------------- JS values
Absent == -1

NoNode == [t |-> "undefined", id |-> 0, rank |-> 0]
NullNode == [t |-> "null", id |-> 0, rank |-> 0]
NoErrors == [t |-> "undefined", list |-> <<>>]
NoEdges == [t |-> "undefined", items |-> <<>>]

\* JavaScript truthiness of a tagged value
Truthy(v) == v.t \notin {"undefined", "null"}

NoResult == [kind |-> "none", node |-> NoNode, count |-> 0, errors |-> NoErrors,
             edges |-> NoEdges, hasNextPage |-> "undefined", totalCount |-> 0]

\* ------------------------------------------------------------ list queries
NoOrderBy == [present |-> FALSE, column |-> <<>>, order |-> ""]
NoFilter == [present |-> FALSE, hasSearchText |-> FALSE, searchText |-> <<>>]
NoListArgs == [limit |-> Absent, offset |-> Absent, orderBy |-> NoOrderBy, filter |-> NoFilter]
NoQuery == [limit |-> Absent, offset |-> Absent, orders |-> <<>>, likes |-> <<>>]

\* lines 73-79: the last remote key flagged sortBy, 'name' when there is none
RECURSIVE RemoteSortBy(_, _)
RemoteSortBy(keys, sortBy) ==
    IF keys = <<>> THEN sortBy
    ELSE RemoteSortBy(Tail(keys), IF Head(keys).sortBy THEN Head(keys).key ELSE sortBy)

\* lines 69-85: the loop rewrites column when it names a schema key
RECURSIVE ResolveColumn(_, _)
ResolveColumn(keys, column) ==
    IF keys = <<>> THEN column
    ELSE IF column = Head(keys).key
         THEN ResolveColumn(Tail(keys),
                 IF Head(keys).kind = "schema"
                 THEN Dot(Decamelize(UsrSchema.name), RemoteSortBy(UsrSchema.keys, <<"n","a","m","e">>))
                 ELSE Dot(TableName, Decamelize(column)))
         ELSE ResolveColumn(Tail(keys), column)

DefaultOrderNone == <<>>

DefaultOrder == <<[column |-> Dot(TableName, K_id), order |-> "asc"]>>

OrderClause(orderBy) ==
    IF orderBy.present /\ orderBy.column # <<>>
    THEN <<[column |-> ResolveColumn(Schema.keys, orderBy.column),
            order |-> IF orderBy.order # "" THEN orderBy.order ELSE "asc"]>>
    ELSE DefaultOrder

\* lines 92-105: one orWhere per schema key flagged searchText
RECURSIVE SearchClause(_, _)
SearchClause(keys, text) ==
    IF keys = <<>> THEN <<>>
    ELSE (IF Head(keys).searchText
          THEN <<[column |-> Dot(TableName, Head(keys).key), text |-> text]>>
          ELSE <<>>) \o SearchClause(Tail(keys), text)

BuildList(a) ==
    [limit  |-> IF a.limit # Absent /\ a.limit # 0 THEN a.limit ELSE Absent,
     offset |-> IF a.offset # Absent /\ a.offset # 0 THEN a.offset ELSE Absent,
     orders |-> OrderClause(a.orderBy),
     likes  |-> IF a.filter.present /\ a.filter.hasSearchText /\ a.filter.searchText # <<>>
                THEN SearchClause(Schema.keys, a.filter.searchText)
                ELSE <<>>]

\* --------------------------------------------------------------- the store
\* What the database does with a statement.  The usr row joined to box i is
\* fixed: nicks run against the ids.
UsrNickOf(row) == MaxId + 1 - row.id

KnownOrderColumns == {Dot(TableName, K_id), Dot(TableName, K_rank), Dot(Decamelize(N_Usr), K_nick)}

ColumnValue(row, column) ==
    CASE column = Dot(TableName, K_id) -> row.id
      [] column = Dot(TableName, K_rank) -> row.rank
      [] column = Dot(Decamelize(N_Usr), K_nick) -> UsrNickOf(row)

RECURSIVE InOrder(_, _, _)
InOrder(a, b, orders) ==
    IF orders = <<>> THEN TRUE
    ELSE LET x == ColumnValue(a, Head(orders).column)
             y == ColumnValue(b, Head(orders).column)
         IN  IF x = y THEN InOrder(a, b, Tail(orders))
             ELSE IF Head(orders).order = "desc" THEN x > y ELSE x < y

\* every order the database may return the rows in: ties are its choice
Orderings(rows, orders) ==
    LET n == Cardinality(rows)
    IN  {p \in [1..n -> rows] :
            /\ \A i, j \in 1..n : i # j => p[i] # p[j]
            /\ \A i \in 1..n, j \in 1..n : i < j => InOrder(p[i], p[j], orders)}

Window(p, q) ==
    LET from == IF q.offset = Absent THEN 1 ELSE q.offset + 1
        avail == IF Len(p) >= from THEN Len(p) - from + 1 ELSE 0
        take == IF q.limit = Absent \/ q.limit > avail THEN avail ELSE q.limit
    IN  SubSeq(p, from, from + take - 1)

QueryValid(q) ==
    /\ \A i \in 1..Len(q.orders) : q.orders[i].column \in KnownOrderColumns
    /\ \A i \in 1..Len(q.likes) : q.likes[i].column = Dot(TableName, K_rank)

Matches(row, q) ==
    \/ q.likes = <<>>
    \/ \E i \in 1..Len(q.likes) : Like(DecimalOf(row.rank), q.likes[i].text)

ExecList(q, rows) ==
    {Window(p, q) : p \in Orderings({r \in rows : Matches(r, q)}, q.orders)}

\* ------------------------------------------------------------- FieldError
\* common/FieldError: a bag of messages by field; throwIf throws the list of
\* {field, message} when the bag is not empty.
FE_New == <<>>

FE_SetError(e, field, message) ==
    IF \E i \in 1..Len(e) : e[i].field = field
    THEN [i \in 1..Len(e) |-> IF e[i].field = field THEN [field |-> field, message |-> message] ELSE e[i]]
    ELSE Append(e, [field |-> field, message |-> message])

FE_HasAny(e) == e # <<>>

FE_GetErrors(e) == [t |-> "fieldErrors", list |-> e]

\* throwIf: what is thrown, undefined when nothing is
FE_ThrowIf(e) == IF FE_HasAny(e) THEN FE_GetErrors(e) ELSE NoErrors

\* what a rejected statement throws: the driver's error object, no field list
StoreException == [t |-> "exception", list |-> <<>>]

\* ------------------------------------------------------------ return values
ReturnNode(node) == [NoResult EXCEPT !.kind = "node", !.node = node]
ReturnCount(n) == [NoResult EXCEPT !.kind = "count", !.count = n]
ReturnErrors(e) == [NoResult EXCEPT !.kind = "errors", !.errors = e]
ReturnUndefined == [NoResult EXCEPT !.kind = "undefined"]
Rejects(e) == [NoResult EXCEPT !.kind = "threw", !.errors = e]

\* -------------------------------------------------------------- statements
Stmt(verb, table, data, where) == [verb |-> verb, table |-> table, data |-> data, where |-> where]

\* decamelizeKeys; the keys that occur are converted once
ColumnOf == [k \in {K_id, K_rank, K_owner, K_myKids, K_myBoxId} |-> Decamelize(k)]

DecamelizeKeys(pairs) == {<<ColumnOf[p[1]], p[2]>> : p \in pairs}

KeysOf(pairs) == {p[1] : p \in pairs}
HasKey(pairs, k) == \E p \in pairs : p[1] = k
ValueOf(pairs, k) == (CHOOSE p \in pairs : p[1] = k)[2]
SetKey(pairs, k, v) == {p \in pairs : p[1] # k} \cup {<<k, v>>}

RowById(rows, id) == CHOOSE r \in rows : r.id = id
HasId(rows, id) == \E r \in rows : r.id = id
IdsOf(rows) == {r.id : r \in rows}

\* select ... where table.id = id, through knexnest: null when no row matches
SelectNode(rows, id) ==
    IF HasId(rows, id)
    THEN [t |-> "object", id |-> id, rank |-> RowById(rows, id).rank]
    ELSE NullNode

\* get: the node wrapped in an object, { node }
GetResult(node) == [t |-> "object", node |-> node]

\* ----------------------------------------------------------- mutation data
NoNested == [t |-> "undefined", create |-> <<>>, update |-> <<>>, delete |-> <<>>]
NullNested == [t |-> "null", create |-> <<>>, update |-> <<>>, delete |-> <<>>]

ArrayKeys == {Schema.keys[i].key : i \in {j \in 1..Len(Schema.keys) : Schema.keys[j].kind = "array"}}

NoData == [scalars |-> {}, nested |-> [k \in ArrayKeys |-> NoNested]]

\* the own enumerable keys of data, each with its column value (0 for null)
DataPairs(data) ==
    data.scalars \cup {<<k, 0>> : k \in {x \in DOMAIN data.nested : data.nested[x].t # "undefined"}}

\* lines 158-165 and 199-206: nestedEntries.push({ key, data: data[key] })
RECURSIVE NestedEntries(_, _)
NestedEntries(keys, data) ==
    IF keys = <<>> THEN <<>>
    ELSE (IF Head(keys).kind = "array" /\ Truthy(data.nested[Head(keys).key])
          THEN <<[key |-> Head(keys).key, data |-> data.nested[Head(keys).key]]>>
          ELSE <<>>) \o NestedEntries(Tail(keys), data)

\* lines 158-165 and 199-206: delete data[key]
RECURSIVE StripNested(_, _)
StripNested(keys, data) ==
    IF keys = <<>> THEN data
    ELSE StripNested(Tail(keys),
            IF Head(keys).kind = "array" /\ Truthy(data.nested[Head(keys).key])
            THEN [data EXCEPT !.nested[Head(keys).key] = NoNested]
            ELSE data)

\* `${camelize(this.schema.name)}Id`
FkKey == Camelize(Schema.name) \o <<"I","d">>

\* ctx[pascalize(nested.key)]: the call goes out when ctx holds the instance,
\* and the callback throws inside its own promise when it does not
CtxKeyLower(key) == Camelize(key)

CtxKey(key) == Pascalize(key)

CtxCall(key, verb, data, where) ==
    IF CtxKey(key) \in CtxKeys
    THEN <<Stmt(verb, Prefix \o ChildTableName, DecamelizeKeys(data), where)>>
    ELSE <<>>

\* create[`${camelize(this.schema.name)}Id`] = id
WithFk(create, id) == SetKey(create, FkKey, id)

RECURSIVE ChildCreates(_, _, _)
ChildCreates(key, creates, id) ==
    IF creates = <<>> THEN <<>>
    ELSE CtxCall(key, "insert", WithFk(Head(creates), id), {}) \o ChildCreates(key, Tail(creates), id)

RECURSIVE ChildUpdates(_, _)
ChildUpdates(key, updates) ==
    IF updates = <<>> THEN <<>>
    ELSE CtxCall(key, "update", Head(updates).data, Head(updates).where) \o ChildUpdates(key, Tail(updates))

RECURSIVE ChildDeletes(_, _)
ChildDeletes(key, deletes) ==
    IF deletes = <<>> THEN <<>>
    ELSE CtxCall(key, "del", {}, Head(deletes)) \o ChildDeletes(key, Tail(deletes))

\* lines 170-179: create dispatches the create sub-list only
RECURSIVE CreateDispatch(_, _)
CreateDispatch(entries, id) ==
    IF entries = <<>> THEN <<>>
    ELSE ChildCreates(Head(entries).key, Head(entries).data.create, id)
         \o CreateDispatch(Tail(entries), id)

\* lines 211-230: update dispatches create, update and delete sub-lists
RECURSIVE UpdateDispatch(_, _)
UpdateDispatch(entries, id) ==
    IF entries = <<>> THEN <<>>
    ELSE ChildCreates(Head(entries).key, Head(entries).data.create, id)
         \o ChildUpdates(Head(entries).key, Head(entries).data.update)
         \o ChildDeletes(Head(entries).key, Head(entries).data.delete)
         \o UpdateDispatch(Tail(entries), id)

RECURSIVE SeqToBag(_)
SeqToBag(q) == IF q = <<>> THEN EmptyBag ELSE SetToBag({Head(q)}) (+) SeqToBag(Tail(q))

\* the statements _create, _update, _delete, _deleteMany build on this table
InsertStmt(data) == Stmt("insert", Prefix \o TableName, DecamelizeKeys(DataPairs(data)), {})
UpdateStmt(data, id) == Stmt("update", Prefix \o TableName, DecamelizeKeys(DataPairs(data)), {<<K_id, id>>})
DeleteStmt(id) == Stmt("del", Prefix \o TableName, {}, {<<K_id, id>>})
SelectStmt(id) == Stmt("select", Prefix \o TableName, {}, {<<K_id, id>>})

\* ------------------------------------------------- the store, on statements
ParentValid(stmt) == KeysOf(stmt.data) \subseteq ParentColumns

ParentInsert(rows, id, stmt) ==
    rows \cup {[id |-> id, rank |-> IF HasKey(stmt.data, K_rank) THEN ValueOf(stmt.data, K_rank) ELSE 0]}

ParentUpsert(rows, stmt) ==
    IF HasId(rows, ValueOf(stmt.where, K_id))
    THEN {IF r.id = ValueOf(stmt.where, K_id) /\ HasKey(stmt.data, K_rank)
          THEN [r EXCEPT !.rank = ValueOf(stmt.data, K_rank)] ELSE r : r \in rows}
    ELSE ParentInsert(rows, ValueOf(stmt.where, K_id), stmt)

\* update ... where id = ?: the rows that match, and no others
ParentUpdate(rows, stmt) ==
    {IF r.id = ValueOf(stmt.where, K_id) /\ HasKey(stmt.data, K_rank)
     THEN [r EXCEPT !.rank = ValueOf(stmt.data, K_rank)] ELSE r : r \in rows}

ParentDelete(rows, idIn) == {r \in rows : r.id \notin idIn}

ChildValid(stmt) == KeysOf(stmt.data) \subseteq ChildColumns /\ KeysOf(stmt.where) \subseteq ChildColumns

ChildValue(row, column) ==
    CASE column = K_id -> row.id
      [] column = ChildFkColumn -> row.fk

ChildMatch(row, where) == \A p \in where : ChildValue(row, p[1]) = p[2]

ChildSet(row, data) ==
    [id |-> row.id,
     fk |-> IF HasKey(data, ChildFkColumn) THEN ValueOf(data, ChildFkColumn) ELSE row.fk]

ChildExec(rows, id, stmt) ==
    CASE stmt.verb = "insert" -> rows \cup {ChildSet([id |-> id, fk |-> 0], stmt.data)}
      [] stmt.verb = "update" -> {IF ChildMatch(r, stmt.where) THEN ChildSet(r, stmt.data) ELSE r : r \in rows}
      [] stmt.verb = "del" -> {r \in rows : ~ChildMatch(r, stmt.where)}

\* UPDATE t t1 JOIN t t2 ON t1.id = ? AND t2.id = ? SET t1.rank = ?, t2.rank = ?
\* affectedRows counts the rows found or the rows changed, as the connection
\* is set up; two references to one row leave the winner to the database.
SetRank(rows, id, rank) == {IF r.id = id THEN [r EXCEPT !.rank = rank] ELSE r : r \in rows}

SortExec(rows, d, found) ==
    IF ~(HasId(rows, d[1]) /\ HasId(rows, d[2])) THEN {[rows |-> rows, affectedRows |-> 0]}
    ELSE IF d[1] # d[2]
    THEN LET after == SetRank(SetRank(rows, d[1], d[3]), d[2], d[4])
         IN  {[rows |-> after, affectedRows |-> IF found THEN 2 ELSE Cardinality(after \ rows)]}
    ELSE {o \in {[rows |-> SetRank(rows, d[1], r), affectedRows |-> n] : r \in {d[3], d[4]}, n \in 0..2} :
             (o.affectedRows = 0) <=> (~found /\ o.rows = rows)}

\* ------------------------------------------------------------------ inputs
SeqsUpTo(S, n) == UNION {[1..k -> S] : k \in 0..n}

ChildDatas == {{}, {<<K_myBoxId, 1>>}}
ChildWheres == {{<<K_id, i>>} : i \in Ids}
ChildUpdateArgs == [data : {{<<K_myBoxId, 1>>}}, where : ChildWheres]

NestedVals ==
    {NoNested, NullNested} \cup
    {n \in [t : {"object"}, create : SeqsUpTo(ChildDatas, MaxNested),
            update : SeqsUpTo(ChildUpdateArgs, MaxNested), delete : SeqsUpTo(ChildWheres, MaxNested)] :
        Len(n.create) + Len(n.update) + Len(n.delete) <= MaxNested}

DatasOf(ranks, nesteds) ==
    {[scalars |-> {<<K_rank, r>>}, nested |-> [k \in ArrayKeys |-> n]] : r \in ranks, n \in nesteds}

\* payloads without nested entries, and payloads with them
PlainDatas == DatasOf(Ranks, {NoNested})
NestedDatas == DatasOf({1}, NestedVals)

SortDatas == Ids \X Ids \X Ranks \X Ranks

\* ------------------------------------------------------------------- state
Idle == [op |-> "none", id |-> 0]

NoEv == [op |-> "init", ok |-> TRUE, id |-> 0, count |-> 0, fetched |-> NoNode, sortData |-> <<0, 0, 0, 0>>, idIn |-> {},
         data |-> NoData, log |-> <<>>, dispatched |-> <<>>, res |-> NoResult,
         listArgs |-> NoListArgs, query |-> NoQuery]

Init ==
    /\ parentT = {}
    /\ childT = {}
    /\ nextId = [parent |-> 1, child |-> 1]
    /\ pending = EmptyBag
    /\ call = Idle
    /\ ev = NoEv

\* requests follow one another: the next one is issued once the result of the
\* last has been taken and its statements have settled
Quiet == call = Idle /\ pending = EmptyBag /\ ev = NoEv

\* ------------------------------------------------------------------ create
\* In create, update and sort the FieldError made at the top is empty when
\* throwIf is called on it (lines 154-155, 195-196, 281-282), so nothing is
\* thrown there.
\* lines 152-179: strip, insert, put the child creates in flight
CreateInsert(datas) ==
    /\ Quiet
    /\ nextId.parent <= MaxId
    /\ \E data \in datas, ok \in BOOLEAN :
        LET entries == NestedEntries(Schema.keys, data)
            stmt == InsertStmt(StripNested(Schema.keys, data))
            id == nextId.parent
            ops == CreateDispatch(entries, id)
            e == [NoEv EXCEPT !.data = data, !.log = <<stmt>>, !.ok = ok]
        IN  /\ IF ok /\ ParentValid(stmt)
               THEN /\ parentT' = ParentInsert(parentT, id, stmt)
                    /\ nextId' = [nextId EXCEPT !.parent = id + 1]
                    /\ pending' = pending (+) SeqToBag(ops)
                    /\ call' = [op |-> "create", id |-> id]
                    /\ ev' = [e EXCEPT !.op = "createInsert", !.id = id, !.dispatched = ops]
               ELSE /\ ev' = [e EXCEPT !.op = "create", !.ok = FALSE, !.res = ReturnErrors(StoreException)]
                    /\ UNCHANGED <<parentT, nextId, pending, call>>
            /\ UNCHANGED childT

ReadBackAwaitsKids(pend) == pend = EmptyBag

\* lines 181 and 232: nothing holds the promises of the child callbacks, so the
\* read-back runs as soon as the parent statement has resolved
ReadBackReady(pend) == TRUE

ReadBackResult(ok, id) ==
    IF ok THEN ReturnNode(SelectNode(parentT, id)) ELSE ReturnErrors(StoreException)

\* line 181: return await this.get({ where: { id } }, info)
CreateReadBack ==
    \E ok \in BOOLEAN :
        /\ call.op = "create"
        /\ ReadBackReady(pending)
        /\ call' = Idle
        /\ ev' = [NoEv EXCEPT !.op = "create", !.ok = ok, !.id = call.id,
                              !.log = <<SelectStmt(call.id)>>, !.res = ReadBackResult(ok, call.id)]
        /\ UNCHANGED <<parentT, childT, nextId, pending>>

\* ------------------------------------------------------------------ update
\* lines 193-230
UpdateWrite(datas) ==
    /\ Quiet
    /\ \E data \in datas, id \in Ids, ok \in BOOLEAN :
        LET entries == NestedEntries(Schema.keys, data)
            stmt == UpdateStmt(StripNested(Schema.keys, data), id)
            ops == UpdateDispatch(entries, id)
            e == [NoEv EXCEPT !.data = data, !.log = <<stmt>>, !.ok = ok, !.id = id]
        IN  /\ IF ok /\ ParentValid(stmt)
               THEN /\ parentT' = ParentUpdate(parentT, stmt)
                    /\ pending' = pending (+) SeqToBag(ops)
                    /\ call' = [op |-> "update", id |-> id]
                    /\ ev' = [e EXCEPT !.op = "updateWrite", !.dispatched = ops,
                                        !.count = Cardinality({r \in parentT : r.id = id})]
               ELSE /\ ev' = [e EXCEPT !.op = "update", !.ok = FALSE, !.res = ReturnErrors(StoreException)]
                    /\ UNCHANGED <<parentT, pending, call>>
            /\ UNCHANGED <<childT, nextId>>

\* line 232: return await this.get(args, info)
UpdateReadBack ==
    \E ok \in BOOLEAN :
        /\ call.op = "update"
        /\ ReadBackReady(pending)
        /\ call' = Idle
        /\ ev' = [NoEv EXCEPT !.op = "update", !.ok = ok, !.id = call.id,
                              !.log = <<SelectStmt(call.id)>>, !.res = ReadBackResult(ok, call.id)]
        /\ UNCHANGED <<parentT, childT, nextId, pending>>

\* -------------------------------------------------------- child statements
\* a statement put in flight by a nested callback reaches the store; when it
\* is rejected the callback's promise rejects and no one is listening
ChildWrite ==
    \E stmt \in BagToSet(pending), ok \in BOOLEAN :
        /\ stmt.verb = "insert" => nextId.child <= MaxId
        /\ pending' = pending (-) SetToBag({stmt})
        /\ IF ok /\ ChildValid(stmt)
           THEN /\ childT' = ChildExec(childT, nextId.child, stmt)
                /\ nextId' = IF stmt.verb = "insert" THEN [nextId EXCEPT !.child = @ + 1] ELSE nextId
           ELSE UNCHANGED <<childT, nextId>>
        /\ ev' = [NoEv EXCEPT !.op = "childWrite", !.ok = ok /\ ChildValid(stmt), !.log = <<stmt>>]
        /\ UNCHANGED <<parentT, call>>

\* ------------------------------------------------------------------ delete
NodeAfterDelete(before, after, id) == GetResult(SelectNode(after, id))

\* lines 248 and 258: what delete hands back is the value get gave it
NodeOfDelete(before, after, id) == GetResult(SelectNode(before, id))

\* lines 244-266
DeleteRun(rows, id, okGet, okDel) ==
    LET e == FE_New
        node == NodeOfDelete(rows, ParentDelete(rows, {id}), id)
        after == ParentDelete(rows, {id})
        isDeleted == Cardinality(rows \ after)
        none == [res |-> NoResult, rows |-> rows, log |-> <<SelectStmt(id)>>, fetched |-> NoNode, count |-> 0]
        got == [none EXCEPT !.fetched = SelectNode(rows, id)]
        both == [got EXCEPT !.log = <<SelectStmt(id), DeleteStmt(id)>>]
    IN  IF ~okGet
        THEN [none EXCEPT !.res = ReturnErrors(StoreException)]
        ELSE IF ~Truthy(node)
        THEN [got EXCEPT !.res = ReturnErrors(FE_ThrowIf(FE_SetError(e, "delete", "Node does not exist.")))]
        ELSE IF ~okDel
        THEN [both EXCEPT !.res = ReturnErrors(StoreException)]
        ELSE IF isDeleted # 0
        THEN [both EXCEPT !.res = ReturnNode(node.node), !.rows = after, !.count = isDeleted]
        ELSE [both EXCEPT !.res = ReturnErrors(FE_ThrowIf(FE_SetError(e, "delete",
                                     "Could not delete Node. Please try again later.")))]

Delete ==
    /\ Quiet
    /\ \E id \in Ids, okGet \in BOOLEAN, okDel \in BOOLEAN :
        LET out == DeleteRun(parentT, id, okGet, okDel)
        IN  /\ parentT' = out.rows
            /\ ev' = [NoEv EXCEPT !.op = "delete", !.ok = okGet /\ okDel, !.id = id, !.fetched = out.fetched,
                                  !.count = out.count, !.log = out.log, !.res = out.res]
            /\ UNCHANGED <<childT, nextId, pending, call>>

\* -------------------------------------------------------------------- sort
SortedOrNone(affectedRows) == affectedRows >= 0

\* line 286
Sorted(affectedRows) == affectedRows > 0

\* lines 279-295
SortRun(out, ok) ==
    IF ~ok THEN ReturnErrors(StoreException)
    ELSE IF Sorted(out.affectedRows) THEN ReturnCount(out.affectedRows)
    ELSE ReturnErrors(FE_ThrowIf(FE_SetError(FE_New, "sort", "Could not sort Node. Please try again later.")))

Sort ==
    /\ Quiet
    /\ \E d \in SortDatas, ok \in BOOLEAN, found \in BOOLEAN :
        \E out \in SortExec(parentT, d, found) :
            /\ parentT' = IF ok THEN out.rows ELSE parentT
            /\ ev' = [NoEv EXCEPT !.op = "sort", !.ok = ok, !.sortData = d,
                                  !.count = IF ok THEN out.affectedRows ELSE 0,
                                  !.log = <<Stmt("raw", Prefix \o TableName, {}, {})>>,
                                  !.res = SortRun(out, ok)]
            /\ UNCHANGED <<childT, nextId, pending, call>>

\* -------------------------------------------------------------- deleteMany
\* lines 329-344
DeleteManyRun(deleteCount, ok) ==
    IF ~ok THEN ReturnErrors(StoreException)
    ELSE IF deleteCount > 0 THEN ReturnCount(deleteCount)
    ELSE ReturnErrors(FE_ThrowIf(FE_SetError(FE_New, "delete",
                "Could not delete any of selected Node. Please try again later.")))

DeleteMany ==
    /\ Quiet
    /\ \E idIn \in SUBSET Ids, ok \in BOOLEAN :
        LET after == IF ok THEN ParentDelete(parentT, idIn) ELSE parentT
        IN  /\ parentT' = after
            /\ ev' = [NoEv EXCEPT !.op = "deleteMany", !.ok = ok, !.idIn = idIn,
                                  !.log = <<Stmt("del", Prefix \o TableName, {}, {})>>,
                                  !.res = DeleteManyRun(Cardinality(parentT \ after), ok)]
            /\ UNCHANGED <<childT, nextId, pending, call>>

\* -------------------------------------------------------------- updateMany
\* lines 305-321: the error is set and never thrown, and the try block ends
\* without a return statement
UpdateManyRun(e) == ReturnUndefined

UpdateMany ==
    /\ Quiet
    /\ \E idIn \in SUBSET Ids :
        /\ ev' = [NoEv EXCEPT !.op = "updateMany", !.idIn = idIn,
                              !.res = UpdateManyRun(FE_SetError(FE_New, "update",
                                         "Not yet implemented. Please try again later."))]
        /\ UNCHANGED <<parentT, childT, nextId, pending, call>>

\* ------------------------------------------------------------------- reads
HasNextPageAtLeast(edges, limit) ==
    IF ~Truthy(edges) THEN "null"
    ELSE IF Len(edges.items) >= limit THEN "true" ELSE "false"

\* line 118: edges && edges.length === args.limit
HasNextPage(edges, limit) ==
    IF ~Truthy(edges) THEN "null"
    ELSE IF limit # Absent /\ Len(edges.items) = limit THEN "true" ELSE "false"

\* knexnest on a list query: the rows, and for no rows an empty list or null
Nested(items) ==
    {[t |-> "array", items |-> items]} \cup (IF items = <<>> THEN {[t |-> "null", items |-> <<>>]} ELSE {})

ListArgs ==
    [limit : {Absent} \cup (0..MaxId), offset : {Absent, 0, 1},
     orderBy : {NoOrderBy, [present |-> TRUE, column |-> <<>>, order |-> "desc"]}
               \cup [present : {TRUE}, column : {K_id, K_rank, K_owner}, order : {"", "asc", "desc"}],
     filter : {NoFilter, [present |-> TRUE, hasSearchText |-> FALSE, searchText |-> <<>>],
               [present |-> TRUE, hasSearchText |-> TRUE, searchText |-> <<>>]}
              \cup {[present |-> TRUE, hasSearchText |-> TRUE, searchText |-> DecimalOf(r)] : r \in Ranks}]

\* lines 123-125
GetList ==
    /\ Quiet
    /\ \E a \in ListArgs, ok \in BOOLEAN :
        LET q == BuildList(a)
            e == [NoEv EXCEPT !.op = "getList", !.listArgs = a, !.query = q, !.ok = ok /\ QueryValid(q)]
        IN  /\ IF ok /\ QueryValid(q)
               THEN \E items \in ExecList(q, parentT) : \E edges \in Nested(items) :
                        ev' = [e EXCEPT !.res = [NoResult EXCEPT !.kind = "list", !.edges = edges]]
               ELSE ev' = [e EXCEPT !.res = Rejects(StoreException)]
            /\ UNCHANGED <<parentT, childT, nextId, pending, call>>

\* lines 110-121
GetPaginated ==
    /\ Quiet
    /\ \E a \in ListArgs, okList \in BOOLEAN, okCount \in BOOLEAN :
        LET q == BuildList(a)
            e == [NoEv EXCEPT !.op = "getPaginated", !.listArgs = a, !.query = q,
                              !.ok = okList /\ okCount /\ QueryValid(q)]
        IN  /\ IF okList /\ okCount /\ QueryValid(q)
               THEN \E items \in ExecList(q, parentT) : \E edges \in Nested(items) :
                        ev' = [e EXCEPT !.res = [NoResult EXCEPT !.kind = "page", !.edges = edges,
                                                    !.hasNextPage = HasNextPage(edges, a.limit),
                                                    !.totalCount = Cardinality(IdsOf(parentT))]]
               ELSE ev' = [e EXCEPT !.res = Rejects(StoreException)]
            /\ UNCHANGED <<parentT, childT, nextId, pending, call>>

\* lines 141-144
Get ==
    /\ Quiet
    /\ \E id \in Ids, ok \in BOOLEAN :
        /\ ev' = [NoEv EXCEPT !.op = "get", !.ok = ok, !.id = id, !.log = <<SelectStmt(id)>>,
                              !.res = IF ok THEN ReturnNode(SelectNode(parentT, id)) ELSE Rejects(StoreException)]
        /\ UNCHANGED <<parentT, childT, nextId, pending, call>>

\* the caller takes the value the call returned
Receive ==
    /\ call = Idle
    /\ ev # NoEv
    /\ ev' = NoEv
    /\ UNCHANGED <<parentT, childT, nextId, pending, call>>

\* the mutations of one table
TableNext ==
    \/ CreateInsert(PlainDatas)
    \/ CreateReadBack
    \/ UpdateWrite(PlainDatas)
    \/ UpdateReadBack
    \/ Delete
    \/ Sort
    \/ DeleteMany
    \/ UpdateMany
    \/ Receive

SpecTable == Init /\ [][TableNext]_vars

\* the queries, on the tables create and deleteMany leave behind
ReadNext ==
    \/ CreateInsert(PlainDatas)
    \/ CreateReadBack
    \/ DeleteMany
    \/ GetList
    \/ GetPaginated
    \/ Get
    \/ Receive

SpecRead == Init /\ [][ReadNext]_vars

\* create and update with nested entries, and the child statements in flight
Next ==
    \/ CreateInsert(NestedDatas)
    \/ CreateReadBack
    \/ UpdateWrite(NestedDatas)
    \/ UpdateReadBack
    \/ ChildWrite
    \/ Receive

Spec == Init /\ [][Next]_vars

\* ============================================================== properties
Mutations == {"create", "update", "delete", "sort", "deleteMany", "updateMany"}

HasMessage(res, message) ==
    \E i \in 1..Len(res.errors.list) : res.errors.list[i].message = message

IssuedDelete(log) == \E i \in 1..Len(log) : log[i].verb = "del"

\* the column names of the fixture, written out
COL_my_box_id == <<"m","y","_","b","o","x","_","i","d">>
COL_my_kids == <<"m","y","_","k","i","d","s">>
TBL_my_box == <<"m","y","_","b","o","x">>
TBL_my_kids == <<"m","y","_","k","i","d","s">>
ORD_id == <<"m","y","_","b","o","x",".","i","d">>
ORD_rank == <<"m","y","_","b","o","x",".","r","a","n","k">>
ORD_owner == <<"u","s","r",".","n","i","c","k">>

\* C1: every public mutation returns the payload or { errors }; it never
\* throws and never returns anything else, such as undefined.
C1_MutationReturns ==
    ev.op \in Mutations => ev.res.kind \in {"node", "count", "errors"}

\* C2: updateMany returns { errors } carrying the 'Not yet implemented' error.
C2_UpdateManyReports ==
    ev.op = "updateMany" =>
        /\ ev.res.kind = "errors"
        /\ HasMessage(ev.res, "Not yet implemented. Please try again later.")

\* C3: delete reads the node before it issues the delete statement; when the
\* statement affects a row, delete returns the node as it was read and the row
\* is gone; when it affects no row, delete returns { errors } and the table is
\* as it was.
C3_DeleteReturnsNode ==
    [][ev'.op = "delete" =>
          /\ IssuedDelete(ev'.log) =>
                /\ ev'.log = <<Stmt("select", TBL_my_box, {}, {<<K_id, ev'.id>>}),
                               Stmt("del", TBL_my_box, {}, {<<K_id, ev'.id>>})>>
                /\ ev'.fetched = SelectNode(parentT, ev'.id)
          /\ (IssuedDelete(ev'.log) /\ ev'.count >= 1) =>
                /\ HasId(parentT, ev'.id)
                /\ ev'.res = ReturnNode([t |-> "object", id |-> ev'.id,
                                         rank |-> RowById(parentT, ev'.id).rank])
                /\ ~HasId(parentT', ev'.id)
                /\ parentT' = {r \in parentT : r.id # ev'.id}
          /\ (IssuedDelete(ev'.log) /\ ev'.count = 0) =>
                /\ ev'.res.kind = "errors"
                /\ parentT' = parentT
    ]_vars

C3_Witness ==
    /\ ev.op = "delete"
    /\ ev.res.kind = "node"
    /\ ev.res.node.t = "object"
    /\ ~HasId(parentT, ev.id)

\* C4: when the addressed row does not exist at the initial fetch, delete
\* reports 'Node does not exist.' and issues no delete statement.
C4_DeleteNotFound ==
    (ev.op = "delete" /\ ev.fetched.t = "null") =>
        /\ HasMessage(ev.res, "Node does not exist.")
        /\ ~IssuedDelete(ev.log)

\* C5 as stated: hasNextPage is true exactly when the number of returned
\* edges equals the requested limit, and false for an empty result or no
\* limit; totalCount counts all rows of the table.
C5_HasNextPageAsStated ==
    (ev.op = "getPaginated" /\ ev.res.kind = "page") =>
        /\ (ev.res.hasNextPage = "true") <=>
               (ev.listArgs.limit # Absent /\ Len(ev.res.edges.items) = ev.listArgs.limit)
        /\ Len(ev.res.edges.items) = 0 => ev.res.hasNextPage # "true"
        /\ ev.listArgs.limit = Absent => ev.res.hasNextPage # "true"
        /\ ev.res.totalCount = Cardinality(parentT)

\* C5 amended: hasNextPage is true exactly when the edges come back as a list
\* whose length equals the requested limit, which for limit 0 is an empty
\* list; it is false or null otherwise, so for no limit, for null edges, and
\* for an empty result under a positive limit; totalCount counts all rows of
\* the table whatever the limit, offset and filter.
C5_HasNextPage ==
    (ev.op = "getPaginated" /\ ev.res.kind = "page") =>
        /\ (ev.res.hasNextPage = "true") <=>
               /\ ev.res.edges.t = "array"
               /\ ev.listArgs.limit # Absent
               /\ Len(ev.res.edges.items) = ev.listArgs.limit
        /\ ev.res.hasNextPage \in {"true", "false", "null"}
        /\ (Len(ev.res.edges.items) = 0 /\ ev.listArgs.limit # 0) => ev.res.hasNextPage # "true"
        /\ ev.listArgs.limit = Absent => ev.res.hasNextPage # "true"
        /\ ev.res.totalCount = Cardinality(parentT)

C5_Witness ==
    /\ ev.op = "getPaginated"
    /\ ev.res.kind = "page"
    /\ ev.res.hasNextPage = "true"
    /\ ev.listArgs.limit = 0
    /\ ev.res.edges.items = <<>>
    /\ ev.res.totalCount > 0

\* ------------------------------------------------------------------ nested
NestedOf(e) == e.data.nested[K_myKids]

BaseStatement(e) ==
    /\ e.log # <<>>
    /\ e.log[1].verb \in {"insert", "update"}
    /\ e.log[1].table = TBL_my_box

ExpectCreates(n, id) ==
    [i \in 1..Len(n.create) |-> Stmt("insert", TBL_my_kids, {<<COL_my_box_id, id>>}, {})]

ExpectUpdates(n) ==
    [i \in 1..Len(n.update) |->
        Stmt("update", TBL_my_kids, {<<COL_my_box_id, p[2]>> : p \in n.update[i].data}, n.update[i].where)]

ExpectDeletes(n) ==
    [i \in 1..Len(n.delete) |-> Stmt("del", TBL_my_kids, {}, n.delete[i])]

\* C6 as stated: create and update take every array-typed field out of the
\* data before the base statement, and then issue one child operation per entry
\* of each nested create, update and delete sub-list on ctx[Pascal(key)], each
\* child create carrying the parent's id under '<camel(parent)>Id'.
C6_NestedAsStated ==
    /\ BaseStatement(ev) => ~HasKey(ev.log[1].data, COL_my_kids)
    /\ ev.op \in {"createInsert", "updateWrite"} =>
           ev.dispatched = ExpectCreates(NestedOf(ev), ev.id) \o ExpectUpdates(NestedOf(ev))
                           \o ExpectDeletes(NestedOf(ev))

\* C6 amended: create and update take every array-typed field that holds a
\* nested entry out of the data before the base statement (a field given as
\* null stays in it); create then issues one child create per entry of the
\* nested create sub-list and nothing for the update and delete sub-lists,
\* update issues one child operation per entry of each of the three sub-lists,
\* all on ctx[Pascal(key)], each child create carrying the parent's id under
\* '<camel(parent)>Id' (the new id for create, args.where.id for update).
C6_Nested ==
    /\ (BaseStatement(ev) /\ NestedOf(ev).t # "null") => ~HasKey(ev.log[1].data, COL_my_kids)
    /\ (BaseStatement(ev) /\ NestedOf(ev).t = "null") => HasKey(ev.log[1].data, COL_my_kids)
    /\ ev.op = "createInsert" =>
           /\ ev.dispatched = ExpectCreates(NestedOf(ev), ev.id)
           /\ HasId(parentT, ev.id)
    /\ ev.op = "updateWrite" =>
           ev.dispatched = ExpectCreates(NestedOf(ev), ev.id) \o ExpectUpdates(NestedOf(ev))
                           \o ExpectDeletes(NestedOf(ev))
    /\ ev.op \in {"createInsert", "updateWrite"} =>
           \A i \in 1..Len(ev.dispatched) : BagIn(ev.dispatched[i], pending)

C6_Witness ==
    /\ ev.op = "createInsert"
    /\ Len(ev.dispatched) = 1
    /\ Len(NestedOf(ev).create) = 1
    /\ Len(NestedOf(ev).delete) = 1

\* C7: the nested child writes are not awaited: whenever create or update has
\* done its own statement its read-back can run, whatever is still in flight;
\* a child write that fails leaves the parent table and the call as they are,
\* and { errors } comes back only when a statement of the parent failed.
C7_ChildWritesNotAwaited ==
    /\ [](call.op # "none" => ENABLED (CreateReadBack \/ UpdateReadBack))
    /\ []((ev.op \in {"create", "update"} /\ ev.res.kind = "errors") => ~ev.ok)
    /\ [][(ev'.op = "childWrite" /\ ~ev'.ok) =>
             (parentT' = parentT /\ childT' = childT /\ call' = call)]_vars

C7_Witness ==
    /\ ev.op \in {"create", "update"}
    /\ ev.res.kind = "node"
    /\ call = Idle
    /\ pending # EmptyBag

\* C10: update does not look at the affected-row count: when its where
\* matches no row the table is unchanged, the call goes on, the nested child
\* creates go out with args.where.id, and the result is { node: null }, not
\* { errors }.
C10_UpdateOfNoRow ==
    /\ [][(ev'.op = "updateWrite" /\ ~HasId(parentT, ev'.id)) =>
             /\ parentT' = parentT
             /\ ev'.count = 0
             /\ call'.op = "update"
             /\ ev'.dispatched = ExpectCreates(NestedOf(ev'), ev'.id) \o ExpectUpdates(NestedOf(ev'))
                                 \o ExpectDeletes(NestedOf(ev'))
             /\ pending' = pending (+) SeqToBag(ev'.dispatched)]_vars
    /\ []((ev.op = "update" /\ ev.ok /\ ~HasId(parentT, ev.id)) => ev.res = ReturnNode(NullNode))

C10_Witness ==
    /\ ev.op = "childWrite"
    /\ \E c \in childT : c.fk >= nextId.parent /\ ~HasId(parentT, c.fk)

\* -------------------------------------------------------------------- sort
RankOf(rows, id) == RowById(rows, id).rank

\* C8 as stated: sort exchanges the ranks of the two addressed rows, returns
\* { count } with the affected-row count when it is positive, and returns
\* { errors } exactly when no row was affected, no rank having changed.
C8_SortAsStated ==
    [][ev'.op = "sort" =>
          /\ (ev'.res.kind = "count" /\ ev'.sortData[1] # ev'.sortData[2]) =>
                /\ RankOf(parentT', ev'.sortData[1]) = RankOf(parentT, ev'.sortData[2])
                /\ RankOf(parentT', ev'.sortData[2]) = RankOf(parentT, ev'.sortData[1])
          /\ ev'.res.kind = "count" => (ev'.res.count = ev'.count /\ ev'.count > 0)
          /\ (ev'.res.kind = "errors") <=> (ev'.count = 0)
          /\ ev'.res.kind = "errors" => parentT' = parentT
    ]_vars

\* C8 amended: sort gives the two addressed rows the two ranks it was handed,
\* data[2] to row data[0] and data[3] to row data[1] (an exchange when the
\* caller hands over the rows' ranks crossed), in one two-row update
\* statement; it returns { count } with the affected-row count when that is
\* positive, and { errors } exactly when no row was affected, no rank having
\* changed.
C8_Sort ==
    [][ev'.op = "sort" =>
          /\ ev'.log = <<Stmt("raw", TBL_my_box, {}, {})>>
          /\ (ev'.res.kind = "count" /\ ev'.sortData[1] # ev'.sortData[2]) =>
                /\ RankOf(parentT', ev'.sortData[1]) = ev'.sortData[3]
                /\ RankOf(parentT', ev'.sortData[2]) = ev'.sortData[4]
                /\ \A r \in parentT : r.id \notin {ev'.sortData[1], ev'.sortData[2]} => r \in parentT'
          /\ IdsOf(parentT') = IdsOf(parentT)
          /\ ev'.res.kind \in {"count", "errors"}
          /\ ev'.res.kind = "count" => (ev'.res.count = ev'.count /\ ev'.count > 0)
          /\ (ev'.res.kind = "errors") <=> (ev'.count = 0)
          /\ ev'.res.kind = "errors" => parentT' = parentT
    ]_vars

C8_Witness ==
    /\ ev.op = "sort"
    /\ ev.res.kind = "count"
    /\ ev.sortData[1] # ev.sortData[2]
    /\ ev.sortData[3] = ev.sortData[4]
    /\ RankOf(parentT, ev.sortData[1]) = RankOf(parentT, ev.sortData[2])

\* ---------------------------------------------------------------- ordering
InOrderBy(items, column, order) ==
    \A i, j \in 1..Len(items) :
        i < j => IF order = "desc"
                 THEN ColumnValue(items[i], column) >= ColumnValue(items[j], column)
                 ELSE ColumnValue(items[i], column) =< ColumnValue(items[j], column)

ExpectColumn(key) ==
    CASE key = K_id -> ORD_id
      [] key = K_rank -> ORD_rank
      [] key = K_owner -> ORD_owner

====
